---- MODULE Spec2Model ----
(***************************************************************************)
(* A model of src/src/bin/client.rs: the signed request/response client    *)
(* with a persisted session, a retrying TLS connector and a streaming      *)
(* reader that reads until the peer closes.                                *)
(*                                                                         *)
(* Text is modelled as sequences of symbols.  Symbols 0..255 are bytes;     *)
(* symbols from 256 on are the characters of a digest (see Sha256).        *)
(* An Option<T> is a sequence of length at most 1: <<>> is None and <<v>>  *)
(* is Some(v).                                                             *)
(***************************************************************************)
EXTENDS Integers, Sequences, FiniteSets, TLC

(***************************************************************************)
(* Program constants.                                                      *)
(***************************************************************************)
MAX_RETRIES == 3
RETRY_DELAY == 1
RECONNECT_DELAY == 2
BUFFER_SIZE == 8192
\* The session time-to-live compared against in load_session.
SESSION_TTL == 3600

(***************************************************************************)
(* Bounds of the model.                                                    *)
(***************************************************************************)
\* The wall clock (epoch seconds) when the model starts.
T0 == 4000
\* How many times the wall clock is advanced between operations.
MaxTicks == 2
\* The most bytes a transport of the stream reader's own model carries.
MaxBytes == 3
\* The most units of work a batch of main has.
MaxUnits == 2
\* The most calls of send_request made on a client used call by call.
MaxCalls == 2

\* The amounts by which the wall clock advances between two operations.
Deltas == {1, SESSION_TTL - 1, SESSION_TTL + 1}

\* u64 arithmetic.  The checker's integers are 32 bits wide, so the modulus
\* of the unsigned type is scaled from 2^64 to 2^30; every time of the model
\* is far below it, and a wrapped difference keeps the property the code's
\* comparison depends on: it is larger than the minuend.
U64Mod == 2^30
WrappingSub(a, b) == ((a - b) + U64Mod) % U64Mod

(***************************************************************************)
(* Text.                                                                   *)
(***************************************************************************)
None == <<>>
Some(v) == <<v>>

\* ASCII of the identifiers and secrets main() passes to Client::new, and of
\* another client's identifier found in a shared session file.
Client1 == <<99, 49>>
Client2 == <<99, 50>>
Clients == {Client1, Client2}
ClientKey == <<107, 49>>
ServerKey == <<107, 115>>

IsDigit(b) == b >= 48 /\ b <= 57

\* format!("{}", n) of an unsigned integer: its decimal digits.
RECURSIVE Fmt(_)
Fmt(n) == IF n < 10 THEN <<48 + n>> ELSE Fmt(n \div 10) \o <<48 + (n % 10)>>

\* The value of a sequence of decimal digits.
RECURSIVE DigitsValue(_)
DigitsValue(ds) ==
    IF ds = <<>> THEN 0
    ELSE 10 * DigitsValue(SubSeq(ds, 1, Len(ds) - 1)) + (ds[Len(ds)] - 48)

\* serde_json's parse of a u64: digits only, no leading zero, no sign.
\* None when the text is no u64.
ParseU64(ds) ==
    IF /\ ds # <<>>
       /\ \A i \in 1..Len(ds) : IsDigit(ds[i])
       /\ (Len(ds) > 1 => ds[1] # 48)
    THEN Some(DigitsValue(ds))
    ELSE None

\* The fields of a record's text: the text between its separators (44).
RECURSIVE Fields(_)
Fields(bs) ==
    IF \A i \in 1..Len(bs) : bs[i] # 44 THEN <<bs>>
    ELSE LET k == CHOOSE i \in 1..Len(bs) :
                      bs[i] = 44 /\ \A j \in 1..(i - 1) : bs[j] # 44
         IN <<SubSeq(bs, 1, k - 1)>> \o Fields(SubSeq(bs, k + 1, Len(bs)))

\* The text between the braces of an object, None when there are none.
Unbrace(bs) ==
    IF Len(bs) >= 2 /\ bs[1] = 123 /\ bs[Len(bs)] = 125
    THEN Some(SubSeq(bs, 2, Len(bs) - 1))
    ELSE None

(***************************************************************************)
(* SessionInfo and the session file.                                       *)
(***************************************************************************)
SessionInfo(sid, cid, created, used) ==
    [session_id |-> sid, client_id |-> cid, created_at |-> created, last_used |-> used]

\* serde_json::to_string_pretty of a SessionInfo: the four fields in order.
SessionToJson(s) ==
    <<123>> \o s.session_id \o <<44>> \o s.client_id \o <<44>>
            \o Fmt(s.created_at) \o <<44>> \o Fmt(s.last_used) \o <<125>>

\* serde_json::from_str::<SessionInfo>: None when the text is not an object
\* of four fields whose last two are u64.
SessionFromJson(text) ==
    LET body == Unbrace(text) IN
    IF body = None THEN None
    ELSE LET f == Fields(body[1]) IN
         IF Len(f) # 4 THEN None
         ELSE LET c == ParseU64(f[3])
                  u == ParseU64(f[4])
              IN IF c = None \/ u = None THEN None
                 ELSE Some(SessionInfo(f[1], f[2], c[1], u[1]))

\* The session file: absent, or present with some text.
NoFile == [exists |-> FALSE, text |-> <<>>]
FileOf(text) == [exists |-> TRUE, text |-> text]

\* The outcome of a call: a returned value, or an abort of the process.
Returned(v) == [tag |-> "returned", val |-> v]
Panicked == [tag |-> "panic", val |-> None]

(***************************************************************************)
(* State.                                                                  *)
(***************************************************************************)
VARIABLES
    now,        \* the wall clock, epoch seconds
    ticks,      \* how many times the clock has been advanced
    file,       \* the session file SESSION_FILE
    alive,      \* the client ids whose Client::new has returned
    session,    \* Client::session of each client id (an Option)
    lastLoad,   \* the call of load_session made by the latest step (an Option)
    c_pc,       \* connect_with_retry: where the call stands
    c_iter,     \* connect_with_retry: iterations of the loop completed
    last_error, \* connect_with_retry: last_error (an Option)
    c_log,      \* connect_with_retry: what the call has done so far
    c_ret,      \* connect_with_retry: the error returned (an Option)
    streams,    \* how many streams connect_with_retry has handed out
    transport,  \* the peer's side of the stream: what it will still deliver
    sent,       \* the bytes the transport has delivered so far, in order
    reads,      \* how many reads have returned data
    r_last,     \* stream_response: what the latest read returned
    r_pc,       \* stream_response: where the call stands
    response_data, \* stream_response: response_data
    total_bytes,   \* stream_response: total_bytes
    r_ret,      \* stream_response: what the call returned (an Option)
    st,         \* send_request: the state of the exchange ("none": no call)
    trace,      \* send_request: the states the exchange has been in
    io,         \* send_request: what the exchange has done, in order
    timestamp,  \* send_request: timestamp
    nonce,      \* send_request: nonce
    nonces,     \* how many nonces Uuid::new_v4 has handed out
    request,    \* send_request: request (an Option)
    response,   \* send_request: response (an Option)
    sr_ret,     \* send_request: what the call returned (an Option)
    session0,   \* the client's session when the exchange began
    file0,      \* the session file when the exchange began
    used,       \* the streams send_request has been called with, in order
    m_pc,       \* main: where the program stands
    units,      \* main: how many (group, agent, query) units the batch has
    unit,       \* main: how many units have been completed
    m_log,      \* main: connections opened, exchanges ended, cool-downs
    m_err,      \* main: why the program ended early (an Option)
    m_stream,   \* main: stream, the local of the loop body (an Option)
    h_calls,    \* a client used call by call: the calls made on it, in order
    f_fn,       \* fetch_groups or fetch_agents: which one is called
    f_pc,       \* fetch: where the call stands
    f_attempt,  \* fetch: attempt, the loop variable
    f_log,      \* fetch: what the call has done so far
    f_ret,      \* fetch: what the call returned (an Option)
    g_in,       \* signing: the client id, timestamp, nonce and secret given
    g_sigs,     \* signing: the signatures sign_request has returned, in order
    g_ver       \* signing: the verifications made, secret and verdict

storeVars == <<now, ticks, file, alive, session, lastLoad>>
connVars == <<c_pc, c_iter, last_error, c_log, c_ret, streams>>
streamVars == <<transport, sent, reads, r_last, r_pc, response_data, total_bytes, r_ret>>
reqVars == <<st, trace, io, timestamp, nonce, nonces, request, response, sr_ret,
             session0, file0, used>>
mainVars == <<m_pc, units, unit, m_log, m_err, m_stream>>
harnessVars == <<h_calls>>
fetchVars == <<f_fn, f_pc, f_attempt, f_log, f_ret>>
signVars == <<g_in, g_sigs, g_ver>>
\* The variables of the operations modelled apart from main.
apartVars == <<harnessVars, fetchVars, signVars>>
vars == <<storeVars, connVars, streamVars, reqVars, mainVars, apartVars>>

\* What each group of operations leaves alone.
notStore == <<connVars, streamVars, reqVars, mainVars, apartVars>>
notConn == <<streamVars, reqVars, mainVars, apartVars>>
notStream == <<storeVars, connVars, reqVars, mainVars, apartVars>>

\* A transport: the bytes the peer will still send, and what follows them:
\* the peer closes, the connection breaks, or the peer stays silent.
Transport(pending, end) == [pending |-> pending, end |-> end]
NoTransport == Transport(<<>>, "open")

\* No call of stream_response is under way.
StreamIdle ==
    /\ sent = <<>>
    /\ reads = 0
    /\ r_last = "none"
    /\ r_pc = "idle"
    /\ response_data = <<>>
    /\ total_bytes = 0
    /\ r_ret = None

\* No call of send_request is under way.
ReqIdle ==
    /\ st = "none"
    /\ trace = <<>>
    /\ io = <<>>
    /\ timestamp = 0
    /\ nonce = <<>>
    /\ nonces = 0
    /\ request = None
    /\ response = None
    /\ sr_ret = None
    /\ session0 = None
    /\ file0 = NoFile
    /\ used = <<>>

\* main is not running.
MainIdle ==
    /\ m_pc = "off"
    /\ units = 0
    /\ unit = 0
    /\ m_log = <<>>
    /\ m_err = None
    /\ m_stream = None

\* No client is used call by call, no fetch is called, nothing is signed.
ApartIdle ==
    /\ h_calls = <<>>
    /\ f_fn = "none"
    /\ f_pc = "idle"
    /\ f_attempt = 0
    /\ f_log = <<>>
    /\ f_ret = None
    /\ g_in = None
    /\ g_sigs = <<>>
    /\ g_ver = {}

\* No call of connect_with_retry is under way.
ConnIdle ==
    /\ c_pc = "idle"
    /\ c_iter = 0
    /\ last_error = None
    /\ c_log = <<>>
    /\ c_ret = None
    /\ streams = 0

(***************************************************************************)
(* Client::load_session (lines 114-129).                                   *)
(***************************************************************************)
Sid1 == <<115, 49>>
Sid2 == <<115, 50>>

\* Variants of SessionAccepted with a plausible slip: an exclusive cutoff, and
\* no comparison of the client ids.
SessionAcceptedExclusive(age, s, cid) == age < SESSION_TTL /\ s.client_id = cid
SessionAcceptedAnyClient(age, s, cid) == age <= SESSION_TTL

\* `now - session.created_at <= 3600 && session.client_id == client_id`.
SessionAccepted(age, s, cid) == age <= SESSION_TTL /\ s.client_id = cid

\* The outcomes of load_session(cid) at time t on file f.  The subtraction is
\* evaluated before the comparison of the client ids.  With created_at > now
\* it overflows: a build with overflow checks aborts, a build without wraps.
LoadSession(f, t, cid) ==
    IF ~f.exists THEN {Returned(None)}
    ELSE LET parsed == SessionFromJson(f.text) IN
         IF parsed = None THEN {Returned(None)}
         ELSE LET s == parsed[1] IN
              IF s.created_at > t
              THEN {Panicked,
                    Returned(IF SessionAccepted(WrappingSub(t, s.created_at), s, cid)
                             THEN Some(s) ELSE None)}
              ELSE {Returned(IF SessionAccepted(t - s.created_at, s, cid)
                             THEN Some(s) ELSE None)}

(***************************************************************************)
(* Client::save_session (lines 131-138).                                   *)
(***************************************************************************)
\* fs::write creates or truncates the file and then writes the text: it can
\* fail before touching the file, or after truncating it.
SaveSession(sess, f) ==
    IF sess = None THEN {[ok |-> TRUE, file |-> f]}
    ELSE {[ok |-> TRUE, file |-> FileOf(SessionToJson(sess[1]))],
          [ok |-> FALSE, file |-> f],
          [ok |-> FALSE, file |-> FileOf(<<>>)]}

\* A slip in NewSession: the time is taken again for last_used.
NewSessionUsedLater(sid, cid, ts) == SessionInfo(sid, cid, ts, ts + 1)
\* The session send_request builds from a verified response (lines 236-241).
NewSession(sid, cid, ts) == SessionInfo(sid, cid, ts, ts)

\* Client::new (lines 100-112) in a process of client id c: the session is
\* what load_session returns; an abort ends the process.
ClientNew(c) ==
    \E out \in LoadSession(file, now, c) :
        /\ lastLoad' = Some([cid |-> c, at |-> now, file |-> file, out |-> out])
        /\ IF out.tag = "returned"
           THEN /\ session' = [session EXCEPT ![c] = out.val]
                /\ alive' = alive \cup {c}
           ELSE /\ session' = [session EXCEPT ![c] = None]
                /\ alive' = alive \ {c}

(***************************************************************************)
(* The session store on its own: processes of several client ids sharing   *)
(* the one session file.                                                   *)
(***************************************************************************)
\* What the session file can hold when a process starts.
InitTexts ==
    {SessionToJson(SessionInfo(Sid1, c, t, t)) :
        c \in Clients,
        t \in {T0 - SESSION_TTL - 1, T0 - SESSION_TTL, T0 - SESSION_TTL + 1, T0, T0 + 1}}
    \cup {<<>>, <<123, 125>>, <<120>>,
          <<123>> \o Sid1 \o <<44>> \o Client1 \o <<44>> \o Fmt(T0) \o <<125>>,
          <<123>> \o Sid1 \o <<44>> \o Client1 \o <<44, 120, 44>> \o Fmt(T0) \o <<125>>,
          <<123>> \o Sid1 \o <<44>> \o Client1 \o <<44, 48, 49, 44>> \o Fmt(T0) \o <<125>>}
InitFiles == {NoFile} \cup {FileOf(x) : x \in InitTexts}

StoreInit ==
    /\ now = T0
    /\ ticks = 0
    /\ file \in InitFiles
    /\ alive = {}
    /\ session = [c \in Clients |-> None]
    /\ lastLoad = None
    /\ ConnIdle
    /\ transport = NoTransport
    /\ StreamIdle
    /\ ReqIdle
    /\ MainIdle
    /\ ApartIdle

\* A process of client id c starts: Client::new.
StoreNew(c) ==
    /\ ClientNew(c)
    /\ UNCHANGED <<now, ticks, file, notStore>>

\* Lines 236-242 of send_request in the process of client id c: the session
\* is replaced by one built from a verified response, then saved.
StoreEstablish(c) ==
    /\ c \in alive
    /\ \E sid \in {Sid1, Sid2} :
        LET s == NewSession(sid, c, now) IN
        /\ session' = [session EXCEPT ![c] = Some(s)]
        /\ \E w \in SaveSession(Some(s), file) : file' = w.file
    /\ lastLoad' = None
    /\ UNCHANGED <<now, ticks, alive, notStore>>

\* Time passes.
Tick ==
    /\ ticks < MaxTicks
    /\ \E d \in Deltas : now' = now + d
    /\ ticks' = ticks + 1
    /\ lastLoad' = None
    /\ UNCHANGED <<file, alive, session, notStore>>

StoreNext ==
    \/ \E c \in Clients : StoreNew(c)
    \/ \E c \in Clients : StoreEstablish(c)
    \/ Tick

SpecStore == StoreInit /\ [][StoreNext]_vars

(***************************************************************************)
(* connect_with_retry (lines 395-412).                                     *)
(***************************************************************************)
\* Why a TCP connect, and why a TLS handshake, can fail.
TcpCauses == {"refused", "timed out", "unreachable"}
TlsCauses == {"handshake", "protocol"}

Event(e, cause, at) == [e |-> e, cause |-> cause, at |-> at]

\* The call begins: `let mut last_error = None` and the first iteration.
ConnBegin ==
    /\ c_pc' = "tcp"
    /\ c_iter' = 0
    /\ last_error' = None
    /\ c_log' = <<>>
    /\ c_ret' = None
    /\ UNCHANGED streams

\* TcpStream::connect(addr).await (line 401) and its two arms.
ConnTcp(causes) ==
    /\ c_pc = "tcp"
    /\ \/ /\ c_pc' = "tls"
          /\ c_log' = Append(c_log, Event("tcp_ok", "", now))
          /\ UNCHANGED last_error
       \/ \E e \in causes :
          /\ last_error' = Some(e)
          /\ c_pc' = "sleep"
          /\ c_log' = Append(c_log, Event("tcp_fail", e, now))
    /\ UNCHANGED <<c_iter, c_ret, streams, storeVars, notConn>>

\* A slip in FreshStream: the stream handed out before is handed out again.
FreshStreamSame(n) == n
\* The stream a successful connector.connect makes (line 403): a new one,
\* named by its number.
FreshStream(n) == n + 1

\* `return Ok(connector.connect("localhost", stream).await?)` (line 403): the
\* handshake's result, success or error, is returned from the function.
ConnTls(causes) ==
    /\ c_pc = "tls"
    /\ \/ /\ c_pc' = "ok"
          /\ c_log' = Append(c_log, Event("tls_ok", "", now))
          /\ streams' = FreshStream(streams)
          /\ UNCHANGED c_ret
       \/ \E e \in causes :
          /\ c_log' = Append(c_log, Event("tls_fail", e, now))
          /\ c_pc' = "err"
          /\ c_ret' = Some([kind |-> "handshake", cause |-> e])
          /\ UNCHANGED streams
    /\ UNCHANGED <<c_iter, last_error, storeVars, notConn>>

\* How long the sleep after a failed attempt lasts.
RetrySleep == RETRY_DELAY

\* sleep(RETRY_DELAY).await (line 407), the end of the iteration, and after
\* the last one the error of line 411.
ConnSleep ==
    /\ c_pc = "sleep"
    /\ now' = now + RetrySleep
    /\ c_log' = Append(c_log, Event("sleep", "", now + RetrySleep))
    /\ c_iter' = c_iter + 1
    /\ IF c_iter + 1 < MAX_RETRIES
       THEN /\ c_pc' = "tcp"
            /\ UNCHANGED c_ret
       ELSE /\ c_pc' = "err"
            /\ c_ret' = Some([kind |-> "exhausted", cause |-> last_error[1]])
    /\ UNCHANGED <<last_error, streams, ticks, file, alive, session, lastLoad, notConn>>

(***************************************************************************)
(* connect_with_retry on its own.                                          *)
(***************************************************************************)
ConnInit ==
    /\ now = T0
    /\ ticks = 0
    /\ file = NoFile
    /\ alive = {}
    /\ session = [c \in Clients |-> None]
    /\ lastLoad = None
    /\ ConnIdle
    /\ transport = NoTransport
    /\ StreamIdle
    /\ ReqIdle
    /\ MainIdle
    /\ ApartIdle

ConnCall ==
    /\ c_pc = "idle"
    /\ ConnBegin
    /\ UNCHANGED <<storeVars, notConn>>

ConnNext ==
    \/ ConnCall
    \/ ConnTcp(TcpCauses)
    \/ ConnTls(TlsCauses)
    \/ ConnSleep

SpecConn == ConnInit /\ [][ConnNext]_vars

(***************************************************************************)
(* Client::stream_response (lines 155-186).                                *)
(***************************************************************************)
\* String::from_utf8's test: well-formed UTF-8.  The characters of a digest
\* (symbols from 256 on) stand for Base64 characters, which are ASCII.
IsCont(b) == b >= 128 /\ b <= 191
RECURSIVE Utf8Valid(_)
Utf8Valid(bs) ==
    IF bs = <<>> THEN TRUE
    ELSE LET b == bs[1]
             n == Len(bs)
         IN IF b <= 127 \/ b >= 256 THEN Utf8Valid(Tail(bs))
            ELSE IF b >= 194 /\ b <= 223
            THEN /\ n >= 2
                 /\ IsCont(bs[2])
                 /\ Utf8Valid(SubSeq(bs, 3, n))
            ELSE IF b >= 224 /\ b <= 239
            THEN /\ n >= 3
                 /\ IsCont(bs[2])
                 /\ (b = 224 => bs[2] >= 160)
                 /\ (b = 237 => bs[2] <= 159)
                 /\ IsCont(bs[3])
                 /\ Utf8Valid(SubSeq(bs, 4, n))
            ELSE IF b >= 240 /\ b <= 244
            THEN /\ n >= 4
                 /\ IsCont(bs[2])
                 /\ (b = 240 => bs[2] >= 144)
                 /\ (b = 244 => bs[2] <= 143)
                 /\ IsCont(bs[3])
                 /\ IsCont(bs[4])
                 /\ Utf8Valid(SubSeq(bs, 5, n))
            ELSE FALSE

\* What stream_response returns.
StreamOk(text) == [tag |-> "ok", kind |-> "", text |-> text]
StreamErr(kind) == [tag |-> "err", kind |-> kind, text |-> <<>>]

\* A slip in Extend: the chunk replaces what was received before.
ExtendReplacing(data, chunk) == chunk
\* response_data.extend_from_slice(&buffer[..n]) (line 174).
Extend(data, chunk) == data \o chunk

\* String::from_utf8(response_data).map_err(..) (lines 184-185).
FromUtf8(data) == IF Utf8Valid(data) THEN StreamOk(data) ELSE StreamErr("utf8")

\* A slip in OnZeroRead: a close before any byte is an empty success.
OnZeroReadNoCheck(total, data) == FromUtf8(data)
\* The Ok(0) arm and what follows the loop (lines 167-172 and 182-185).
OnZeroRead(total, data) ==
    IF total = 0 THEN StreamErr("closed_early") ELSE FromUtf8(data)

Min(a, b) == IF a < b THEN a ELSE b

\* How many bytes one read can return when `len` bytes are on their way: any
\* number up to the buffer's size, or, with split = FALSE, as many as fit.
ReadSizes(len, split) ==
    IF split THEN 1..Min(len, BUFFER_SIZE) ELSE {Min(len, BUFFER_SIZE)}

\* The call begins (lines 158-163): the progress line is printed and stdout
\* flushed, which can fail.
StreamStart ==
    /\ r_pc = "idle"
    /\ response_data' = <<>>
    /\ total_bytes' = 0
    /\ \/ /\ r_pc' = "read"
          /\ r_ret' = None
       \/ /\ r_pc' = "ret"
          /\ r_ret' = Some(StreamErr("stdout"))
    /\ UNCHANGED <<transport, sent, reads, r_last, notStream>>

\* One iteration of the loop (lines 165-181) and, when it breaks, the end of
\* the function.  A read completes only when the peer has sent bytes, has
\* closed, or the connection has broken.
StreamRead(split) ==
    /\ r_pc = "read"
    /\ \/ /\ transport.pending # <<>>
          /\ \E n \in ReadSizes(Len(transport.pending), split) :
              LET chunk == SubSeq(transport.pending, 1, n) IN
              /\ transport' = [transport EXCEPT
                                  !.pending = SubSeq(@, n + 1, Len(@))]
              /\ sent' = sent \o chunk
              /\ response_data' = Extend(response_data, chunk)
              /\ total_bytes' = total_bytes + n
          /\ reads' = reads + 1
          /\ r_last' = "data"
          /\ \/ /\ r_pc' = "read"
                /\ r_ret' = None
             \/ /\ r_pc' = "ret"
                /\ r_ret' = Some(StreamErr("stdout"))
       \/ /\ transport.pending = <<>>
          /\ transport.end = "close"
          /\ r_last' = "zero"
          /\ r_pc' = "ret"
          /\ r_ret' = Some(OnZeroRead(total_bytes, response_data))
          /\ UNCHANGED <<transport, sent, reads, response_data, total_bytes>>
       \/ /\ transport.pending = <<>>
          /\ transport.end = "error"
          /\ r_last' = "error"
          /\ r_pc' = "ret"
          /\ r_ret' = Some(StreamErr("read"))
          /\ UNCHANGED <<transport, sent, reads, response_data, total_bytes>>
    /\ UNCHANGED notStream

(***************************************************************************)
(* stream_response on its own, on every transport of a few bytes.          *)
(***************************************************************************)
\* The bytes a transport carries: an ASCII letter, the two bytes of a
\* two-byte character, and a byte that occurs in no UTF-8 text.
StreamBytes == {65, 195, 169, 255}

RECURSIVE SeqsUpTo(_, _)
SeqsUpTo(S, n) ==
    IF n = 0 THEN {<<>>}
    ELSE LET shorter == SeqsUpTo(S, n - 1)
         IN shorter \cup {Append(q, x) : q \in shorter, x \in S}

StreamInit ==
    /\ now = T0
    /\ ticks = 0
    /\ file = NoFile
    /\ alive = {}
    /\ session = [c \in Clients |-> None]
    /\ lastLoad = None
    /\ ConnIdle
    /\ transport \in {Transport(p, e) : p \in SeqsUpTo(StreamBytes, MaxBytes),
                                        e \in {"close", "error", "open"}}
    /\ StreamIdle
    /\ ReqIdle
    /\ MainIdle
    /\ ApartIdle

StreamNext ==
    \/ StreamStart
    \/ StreamRead(TRUE)

SpecStream == StreamInit /\ [][StreamNext]_vars

(***************************************************************************)
(* Signatures and the wire format (lines 30-47 and 140-153).               *)
(***************************************************************************)
Shift(m, k) == [i \in 1..Len(m) |-> m[i] + k]

\* SHA-256 is modelled as collision-free: the digest of a message is the
\* message written in symbols of its own (256..511).
Sha256(m) == Shift(m, 256)
\* Base64 is an injective recoding of the digest (symbols 512..767).
Base64(d) == Shift(d, 256)

\* A slip in Digest: the secret is left out of the digest.
DigestWithoutSecret(data, key) == Base64(Sha256(data))
\* The digest both sides compute: the data followed by the secret.
Digest(data, key) == Base64(Sha256(data \o key))

\* Client::sign_request (lines 140-145), with self.client_key = key.
SignRequest(data, key) == Digest(data, key)

\* Another slip in VerifyResponse: only the lengths are compared.
VerifyResponseByLength(text, signature, key) ==
    Len(Digest(text, key)) = Len(signature)
\* A slip in VerifyResponse: the comparison is lost.
VerifyResponseAlways(text, signature, key) == TRUE
\* Client::verify_response (lines 147-153), with self.server_key = key.
VerifyResponse(text, signature, key) ==
    Digest(text, key) = signature

\* format!("{}:{}:{}", self.client_id, timestamp, nonce) (lines 199-203).
DataToSign(cid, ts, n) == cid \o <<58>> \o Fmt(ts) \o <<58>> \o n

\* Uuid::new_v4(): the k-th nonce handed out, different from all before.
NonceOf(k) == <<110>> \o Fmt(k)

Response(status, data, sid, ts, sig) ==
    [status |-> status, data |-> data, session_id |-> sid, timestamp |-> ts,
     signature |-> sig]

AuthRequest(cid, ts, n, sig, sid, query) ==
    [client_id |-> cid, timestamp |-> ts, nonce |-> n, signature |-> sig,
     session_id |-> sid, wql_query |-> query]

\* serde_json::to_string of a Response: its five fields in order.
ResponseToJson(r) ==
    <<123>> \o (IF r.status THEN <<116>> ELSE <<102>>) \o <<44>> \o r.data \o <<44>>
            \o r.session_id \o <<44>> \o Fmt(r.timestamp) \o <<44>> \o r.signature
            \o <<125>>

\* serde_json::from_str::<Response>: None when the text is not an object of
\* five fields with a boolean first and a u64 fourth.
ResponseFromJson(text) ==
    LET body == Unbrace(text) IN
    IF body = None THEN None
    ELSE LET f == Fields(body[1]) IN
         IF Len(f) # 5 \/ f[1] \notin {<<116>>, <<102>>} THEN None
         ELSE LET ts == ParseU64(f[4]) IN
              IF ts = None THEN None
              ELSE Some(Response(f[1] = <<116>>, f[2], f[3], ts[1], f[5]))

\* `response.signature = String::new()` (line 227).
Cleared(r) == [r EXCEPT !.signature = <<>>]

(***************************************************************************)
(* JSON values, as serde_json::Value holds them.                           *)
(***************************************************************************)
JNull == [t |-> "null", v |-> <<>>]
JStr(x) == [t |-> "str", v |-> x]
JArr(xs) == [t |-> "arr", v |-> xs]
\* An object: its members in order, each a pair of a key and a value.
JObj(ms) == [t |-> "obj", v |-> ms]

\* Texts joined by commas.
RECURSIVE Join(_)
Join(ts) ==
    IF ts = <<>> THEN <<>>
    ELSE IF Len(ts) = 1 THEN ts[1]
    ELSE ts[1] \o <<44>> \o Join(Tail(ts))

\* The text of a JSON value.
RECURSIVE ToJson(_)
ToJson(j) ==
    CASE j.t = "null" -> <<110, 117, 108, 108>>
      [] j.t = "str" -> <<34>> \o j.v \o <<34>>
      [] j.t = "arr" -> <<91>> \o Join([i \in 1..Len(j.v) |-> ToJson(j.v[i])]) \o <<93>>
      [] j.t = "obj" ->
            <<123>> \o Join([i \in 1..Len(j.v) |->
                               <<34>> \o j.v[i][1] \o <<34, 58>> \o ToJson(j.v[i][2])])
                   \o <<125>>

\* value[key] of serde_json: the member of an object, Null when the value is
\* no object or has no such member.
Index(j, key) ==
    IF j.t = "obj" /\ \E i \in 1..Len(j.v) : j.v[i][1] = key
    THEN j.v[CHOOSE i \in 1..Len(j.v) : j.v[i][1] = key][2]
    ELSE JNull
\* as_array and as_str (Options).
AsArray(j) == IF j.t = "arr" THEN Some(j.v) ELSE None
AsStr(j) == IF j.t = "str" THEN Some(j.v) ELSE None

\* The keys the fetches look up: "data", "affected_items", "name", "id".
KeyData == <<100, 97, 116, 97>>
KeyItems == <<97, 102, 102, 101, 99, 116, 101, 100, 95, 105, 116, 101, 109, 115>>
KeyName == <<110, 97, 109, 101>>
KeyId == <<105, 100>>

(***************************************************************************)
(* Client::fetch_groups (lines 279-327) and Client::fetch_agents (lines    *)
(* 329-380), called with the token authenticate has stored.                *)
(***************************************************************************)
\* The items an answer lists: with both strings, with a name only, with
\* neither.
ItemFull == JObj(<< <<KeyId, JStr(<<55>>)>>, <<KeyName, JStr(<<97>>)>> >>)
ItemNamed == JObj(<< <<KeyName, JStr(<<98>>)>> >>)
ItemEmpty == JObj(<<>>)
Envelope(items) == JObj(<< <<KeyData, JObj(<< <<KeyItems, items>> >>)>> >>)

\* The JSON values a body can hold: the expected envelope around some list,
\* and values that lack the list.
JsonBodies ==
    <<Envelope(JArr(<<>>)), Envelope(JArr(<<ItemFull>>)),
      Envelope(JArr(<<ItemNamed, ItemFull>>)), Envelope(JArr(<<ItemEmpty>>)),
      Envelope(JStr(<<120>>)), JObj(<< <<KeyData, JObj(<<>>)>> >>), JObj(<<>>),
      JStr(<<120>>)>>
\* The texts a body can be: a JSON value's, or no JSON at all.
BodyTexts ==
    {ToJson(JsonBodies[i]) : i \in 1..Len(JsonBodies)} \cup {<<>>, <<123>>, <<60, 104, 62>>}

\* serde_json::from_str::<Value>: None when the text is no JSON.
ParseJson(text) ==
    IF \E i \in 1..Len(JsonBodies) : ToJson(JsonBodies[i]) = text
    THEN Some(JsonBodies[CHOOSE i \in 1..Len(JsonBodies) : ToJson(JsonBodies[i]) = text])
    ELSE None

\* StatusCode::is_success: 200 to 299.
IsSuccess(status) == status >= 200 /\ status <= 299
Statuses == {200, 299, 300, 500}

\* What the HTTP request of one attempt comes to: send() fails, text()
\* fails, or a status and a body arrive.
HttpReplies ==
    {[got |-> "send failed", status |-> 0, body |-> <<>>],
     [got |-> "text failed", status |-> 200, body |-> <<>>]}
    \cup {[got |-> "answer", status |-> c, body |-> b] : c \in Statuses, b \in BodyTexts}

\* The filter_map of lines 304-309 and of lines 357-362: the items with the
\* strings asked for, as groups (id and name both from "name") or as agents.
RECURSIVE Collected(_, _)
Collected(fn, items) ==
    IF items = <<>> THEN <<>>
    ELSE LET id == AsStr(Index(items[1], IF fn = "groups" THEN KeyName ELSE KeyId))
             name == AsStr(Index(items[1], KeyName))
         IN (IF id = None \/ name = None THEN <<>>
             ELSE <<[id |-> id[1], name |-> name[1]]>>)
            \o Collected(fn, Tail(items))

FetchOk(list) == [tag |-> "ok", kind |-> "", list |-> list]
FetchErr(kind) == [tag |-> "err", kind |-> kind, list |-> <<>>]

\* What one attempt makes of its reply: an error returned at once (the `?`
\* of lines 291, 294 and 300), the list returned, or a failed attempt, to be
\* retried.
Outcome(fn, reply) ==
    IF reply.got # "answer" THEN [do |-> "return", ret |-> FetchErr(reply.got)]
    ELSE IF ~IsSuccess(reply.status) THEN [do |-> "retry", ret |-> FetchErr("status")]
    ELSE LET json == ParseJson(reply.body) IN
         IF json = None THEN [do |-> "return", ret |-> FetchErr("not json")]
         ELSE LET items == AsArray(Index(Index(json[1], KeyData), KeyItems)) IN
              IF items = None THEN [do |-> "retry", ret |-> FetchErr("structure")]
              ELSE [do |-> "return", ret |-> FetchOk(Collected(fn, items[1]))]

FetchInit ==
    /\ now = T0
    /\ ticks = 0
    /\ file = NoFile
    /\ alive = {}
    /\ session = [c \in Clients |-> None]
    /\ lastLoad = None
    /\ ConnIdle
    /\ transport = NoTransport
    /\ StreamIdle
    /\ ReqIdle
    /\ MainIdle
    /\ ApartIdle

\* fetch_groups or fetch_agents is called: the first attempt begins.
FetchCall(fn) ==
    /\ f_pc = "idle"
    /\ f_fn' = fn
    /\ f_pc' = "request"
    /\ f_attempt' = 1
    /\ UNCHANGED <<f_log, f_ret>>
    /\ UNCHANGED <<storeVars, connVars, streamVars, reqVars, mainVars, harnessVars, signVars>>

\* One attempt, from the request to the test of `attempt < MAX_RETRIES`
\* (lines 281-320); after the last attempt the error of line 326.
FetchAttempt ==
    /\ f_pc = "request"
    /\ \E reply \in HttpReplies :
        LET out == Outcome(f_fn, reply) IN
        /\ f_log' = Append(f_log, Event("attempt",
                            IF out.ret.tag = "ok" THEN "ok" ELSE out.ret.kind, now))
        /\ IF out.do = "return"
           THEN /\ f_pc' = "ret"
                /\ f_ret' = Some(out.ret)
           ELSE IF f_attempt < MAX_RETRIES
           THEN /\ f_pc' = "sleep"
                /\ UNCHANGED f_ret
           ELSE /\ f_pc' = "ret"
                /\ f_ret' = Some(FetchErr("exhausted"))
    /\ UNCHANGED <<f_fn, f_attempt>>
    /\ UNCHANGED <<storeVars, connVars, streamVars, reqVars, mainVars, harnessVars, signVars>>

\* sleep(RETRY_DELAY).await (lines 322 and 375), then the next attempt.
FetchSleep ==
    /\ f_pc = "sleep"
    /\ now' = now + RETRY_DELAY
    /\ f_log' = Append(f_log, Event("sleep", "", now + RETRY_DELAY))
    /\ f_attempt' = f_attempt + 1
    /\ f_pc' = "request"
    /\ UNCHANGED <<f_fn, f_ret>>
    /\ UNCHANGED <<ticks, file, alive, session, lastLoad>>
    /\ UNCHANGED <<connVars, streamVars, reqVars, mainVars, harnessVars, signVars>>

FetchNext ==
    \/ \E fn \in {"groups", "agents"} : FetchCall(fn)
    \/ FetchAttempt
    \/ FetchSleep

SpecFetch == FetchInit /\ [][FetchNext]_vars

(***************************************************************************)
(* sign_request and verify_response on their own: a client id, a           *)
(* timestamp, a nonce and a secret are given; the data made of the first   *)
(* three is signed by a client whose client_key is the secret, and the     *)
(* signature verified by clients whose server_key is any secret.           *)
(***************************************************************************)
Secrets == {ClientKey, ServerKey, <<107>>, <<>>}
SignInputs ==
    {[client_id |-> c, timestamp |-> t, nonce |-> n, secret |-> k] :
        c \in Clients, t \in {0, 9, 10, T0}, n \in {<<>>, NonceOf(0), NonceOf(1)},
        k \in Secrets}

SignInit ==
    /\ now = T0
    /\ ticks = 0
    /\ file = NoFile
    /\ alive = {}
    /\ session = [c \in Clients |-> None]
    /\ lastLoad = None
    /\ ConnIdle
    /\ transport = NoTransport
    /\ StreamIdle
    /\ ReqIdle
    /\ MainIdle
    /\ h_calls = <<>>
    /\ f_fn = "none"
    /\ f_pc = "idle"
    /\ f_attempt = 0
    /\ f_log = <<>>
    /\ f_ret = None
    /\ g_in \in {Some(x) : x \in SignInputs}
    /\ g_sigs = <<>>
    /\ g_ver = {}

\* The data of the inputs (lines 199-203).
SignedData(x) == DataToSign(x.client_id, x.timestamp, x.nonce)

\* sign_request is called on the data, once and once more.
SignCall ==
    /\ Len(g_sigs) < 2
    /\ g_sigs' = Append(g_sigs, SignRequest(SignedData(g_in[1]), g_in[1].secret))
    /\ UNCHANGED <<g_in, g_ver>>
    /\ UNCHANGED <<storeVars, connVars, streamVars, reqVars, mainVars, harnessVars, fetchVars>>

\* verify_response is called on the data and the signature made first, by a
\* client whose server_key is k.
VerifyCall(k) ==
    /\ g_sigs # <<>>
    /\ g_ver' = g_ver \cup {[key |-> k, ok |-> VerifyResponse(SignedData(g_in[1]), g_sigs[1], k)]}
    /\ UNCHANGED <<g_in, g_sigs>>
    /\ UNCHANGED <<storeVars, connVars, streamVars, reqVars, mainVars, harnessVars, fetchVars>>

SignNext ==
    \/ SignCall
    \/ \E k \in Secrets : VerifyCall(k)

SpecSign == SignInit /\ [][SignNext]_vars

(***************************************************************************)
(* Client::send_request (lines 188-245), for the client of main.           *)
(***************************************************************************)
\* What send_request returns.
ReqOk(r) == [tag |-> "ok", kind |-> "", response |-> Some(r)]
ReqErr(kind) == [tag |-> "err", kind |-> kind, response |-> None]

\* The query text of a unit of work.
Query == <<113>>

\* The exchange moves to state s.
Goto(s) ==
    /\ st' = s
    /\ trace' = Append(trace, s)

\* The call returns the error `kind`.
Fail(kind) ==
    /\ Goto("Failed")
    /\ sr_ret' = Some(ReqErr(kind))

\* The call begins on the stream `s` it is given.
ReqBegin(s) ==
    /\ used' = Append(used, s)
    /\ st' = "Idle"
    /\ trace' = <<"Idle">>
    /\ io' = <<>>
    /\ timestamp' = 0
    /\ nonce' = <<>>
    /\ request' = None
    /\ response' = None
    /\ sr_ret' = None
    /\ session0' = session[Client1]
    /\ file0' = file
    /\ transport' = NoTransport
    /\ sent' = <<>>
    /\ reads' = 0
    /\ r_last' = "none"
    /\ r_pc' = "idle"
    /\ response_data' = <<>>
    /\ total_bytes' = 0
    /\ r_ret' = None
    /\ UNCHANGED nonces

\* Idle: the timestamp and the nonce are taken (lines 193-197).
ReqCapture ==
    /\ st = "Idle"
    /\ timestamp' = now
    /\ nonce' = NonceOf(nonces)
    /\ nonces' = nonces + 1
    /\ Goto("Signing")
    /\ UNCHANGED <<io, request, response, sr_ret, session0, file0, used>>
    /\ UNCHANGED <<storeVars, connVars, streamVars, mainVars, apartVars>>

\* The session id a request carries (line 212).
CarriedSessionId(sess) == IF sess = None THEN None ELSE Some(sess[1].session_id)

\* Signing: the signature is computed and the request built (lines 199-214).
ReqSign ==
    /\ st = "Signing"
    /\ request' = Some(AuthRequest(Client1, timestamp, nonce,
                        SignRequest(DataToSign(Client1, timestamp, nonce), ClientKey),
                        CarriedSessionId(session[Client1]), Query))
    /\ io' = Append(io, "sign")
    /\ Goto("Sending")
    /\ UNCHANGED <<timestamp, nonce, nonces, response, sr_ret, session0, file0, used>>
    /\ UNCHANGED <<storeVars, connVars, streamVars, mainVars, apartVars>>

\* Sending: the request is serialized, written and flushed (lines 216-219).
\* The write can fail, and so can the flush; once the request is out the
\* peer decides what it sends back: `replies` are the transports it can make.
ReqSend(replies) ==
    /\ st = "Sending"
    /\ \/ /\ io' = Append(io, "write failed")
          /\ Fail("write")
          /\ UNCHANGED transport
       \/ /\ io' = io \o <<"write", "flush failed">>
          /\ Fail("flush")
          /\ UNCHANGED transport
       \/ /\ io' = io \o <<"write", "flush">>
          /\ Goto("AwaitingResponse")
          /\ transport' \in replies
          /\ UNCHANGED sr_ret
    /\ UNCHANGED <<timestamp, nonce, nonces, request, response, session0, file0, used>>
    /\ UNCHANGED <<sent, reads, r_last, r_pc, response_data, total_bytes, r_ret>>
    /\ UNCHANGED <<storeVars, connVars, mainVars, apartVars>>

\* AwaitingResponse: stream_response is called (line 222) ...
ReqStreamStart ==
    /\ st = "AwaitingResponse"
    /\ StreamStart

\* ... and reads until the peer closes.
ReqStreamRead ==
    /\ st = "AwaitingResponse"
    /\ StreamRead(FALSE)

\* A slip in ReqReceive: a response that does not parse makes the client
\* drop its session.
ReqReceiveDropping ==
    /\ st = "AwaitingResponse"
    /\ r_pc = "ret"
    /\ IF r_ret[1].tag = "err"
       THEN /\ io' = Append(io, "read failed")
            /\ Fail(r_ret[1].kind)
            /\ UNCHANGED <<response, session>>
       ELSE LET parsed == ResponseFromJson(r_ret[1].text) IN
            IF parsed = None
            THEN /\ io' = io \o <<"read", "parse failed">>
                 /\ Fail("parse")
                 /\ session' = [session EXCEPT ![Client1] = None]
                 /\ UNCHANGED response
            ELSE /\ io' = io \o <<"read", "parse">>
                 /\ response' = parsed
                 /\ Goto("Verifying")
                 /\ UNCHANGED <<sr_ret, session>>
    /\ UNCHANGED <<timestamp, nonce, nonces, request, session0, file0, used>>
    /\ UNCHANGED <<now, ticks, file, alive, lastLoad>>
    /\ UNCHANGED <<connVars, streamVars, mainVars, apartVars>>

\* stream_response has returned: its error is returned, or its text is
\* parsed (lines 222-224).
ReqReceive ==
    /\ st = "AwaitingResponse"
    /\ r_pc = "ret"
    /\ IF r_ret[1].tag = "err"
       THEN /\ io' = Append(io, "read failed")
            /\ Fail(r_ret[1].kind)
            /\ UNCHANGED response
       ELSE LET parsed == ResponseFromJson(r_ret[1].text) IN
            IF parsed = None
            THEN /\ io' = io \o <<"read", "parse failed">>
                 /\ Fail("parse")
                 /\ UNCHANGED response
            ELSE /\ io' = io \o <<"read", "parse">>
                 /\ response' = parsed
                 /\ Goto("Verifying")
                 /\ UNCHANGED sr_ret
    /\ UNCHANGED <<timestamp, nonce, nonces, request, session0, file0, used>>
    /\ UNCHANGED <<storeVars, connVars, streamVars, mainVars, apartVars>>

\* A slip in SessionAfterVerify: the session is replaced whatever the check
\* of the signature said.
SessionAfterVerifyUnchecked(ok, old, new) == new
\* The session after the check of the signature: replaced only when the
\* check passed (the early return of lines 230-232 comes first).
SessionAfterVerify(ok, old, new) == IF ok THEN new ELSE old

\* Verifying, and on success Updated (lines 226-244): the signature is
\* cleared, the response serialized again and verified; then the session is
\* replaced and saved, and the response returned.
ReqVerify ==
    /\ st = "Verifying"
    /\ LET r == response[1]
           ok == VerifyResponse(ResponseToJson(Cleared(r)), r.signature, ServerKey)
           new == Some(NewSession(r.session_id, Client1, timestamp))
           sess == SessionAfterVerify(ok, session[Client1], new)
       IN /\ session' = [session EXCEPT ![Client1] = sess]
          /\ IF ~ok
             THEN /\ io' = Append(io, "verify failed")
                  /\ Fail("signature")
                  /\ file' = file
             ELSE \E w \in SaveSession(sess, file) :
                  /\ file' = w.file
                  /\ IF w.ok
                     THEN /\ io' = io \o <<"verify", "session", "save">>
                          /\ Goto("Updated")
                          /\ sr_ret' = Some(ReqOk(r))
                     ELSE /\ io' = io \o <<"verify", "session", "save failed">>
                          /\ Fail("save")
    /\ UNCHANGED <<timestamp, nonce, nonces, request, response, session0, file0, used>>
    /\ UNCHANGED <<now, ticks, alive, lastLoad>>
    /\ UNCHANGED <<connVars, streamVars, mainVars, apartVars>>

(***************************************************************************)
(* main (lines 414-505).                                                   *)
(***************************************************************************)
\* What the session file can hold when the program starts.
MainFiles ==
    {NoFile, FileOf(<<120>>)} \cup
    {FileOf(SessionToJson(SessionInfo(Sid1, c, t, t))) :
        c \in Clients, t \in {T0 - SESSION_TTL - 1, T0 - SESSION_TTL, T0 + 1}}

\* What the peer can send back.  Its responses carry any status, data and
\* session id, and a signature that is empty, or the digest, under the
\* server's or another secret, of any response it can send.
Data1 == <<100, 49>>
Data2 == <<100, 50>>
Unsigned(ts) ==
    {Response(b, d, sid, ts, <<>>) :
        b \in BOOLEAN, d \in {Data1, Data2}, sid \in {Sid1, Sid2}}
Signatures(ts) ==
    {<<>>} \cup {Digest(ResponseToJson(u), k) :
                    u \in Unsigned(ts), k \in {ServerKey, ClientKey}}
Responses(ts) ==
    {[u EXCEPT !.signature = sig] : u \in Unsigned(ts), sig \in Signatures(ts)}
\* A response signed under the server's secret, with its timestamp changed
\* afterwards.
Redated(ts) ==
    {[u EXCEPT !.signature = Digest(ResponseToJson(u), ServerKey),
               !.timestamp = ts + 1] : u \in Unsigned(ts)}
\* The texts it can send: a response, nothing, no JSON, no UTF-8.
ReplyTexts(ts) ==
    {ResponseToJson(r) : r \in Responses(ts) \cup Redated(ts)}
        \cup {<<>>, <<120>>, <<123, 255, 125>>}
Replies(ts) ==
    {Transport(p, e) : p \in ReplyTexts(ts), e \in {"close", "error", "open"}}

MainInit ==
    /\ now = T0
    /\ ticks = 0
    /\ file \in MainFiles
    /\ alive = {}
    /\ session = [c \in Clients |-> None]
    /\ lastLoad = None
    /\ ConnIdle
    /\ transport = NoTransport
    /\ StreamIdle
    /\ ReqIdle
    /\ m_pc = "start"
    /\ units = 0
    /\ unit = 0
    /\ m_log = <<>>
    /\ m_err = None
    /\ m_stream = None
    /\ ApartIdle

\* Lines 416-440: the arguments, the query files and the environment are
\* read, which can end the program, and the client is constructed.
MainNew ==
    /\ m_pc = "start"
    /\ \/ /\ m_pc' = "failed"
          /\ m_err' = Some("startup")
          /\ UNCHANGED <<alive, session, lastLoad>>
       \/ /\ ClientNew(Client1)
          /\ m_pc' = IF Client1 \in alive' THEN "setup" ELSE "aborted"
          /\ m_err' = IF Client1 \in alive' THEN None ELSE Some("panic")
    /\ UNCHANGED <<now, ticks, file, units, unit, m_log, m_stream>>
    /\ UNCHANGED <<connVars, streamVars, reqVars, apartVars>>

\* Lines 443-455: authentication, the connector, the output directory and the
\* groups; each can fail, which ends the program.  The groups, their agents
\* and the query files make the batch's units of work.
MainSetup ==
    /\ m_pc = "setup"
    /\ \/ /\ m_pc' = "failed"
          /\ m_err' = Some("setup")
          /\ UNCHANGED units
       \/ /\ m_pc' = "loop"
          /\ units' \in 0..MaxUnits
          /\ UNCHANGED m_err
    /\ lastLoad' = None
    /\ UNCHANGED <<now, ticks, file, alive, session, unit, m_log, m_stream>>
    /\ UNCHANGED <<connVars, streamVars, reqVars, apartVars>>

\* Lines 457-476: the next unit of work.  Making the group's directory,
\* fetching its agents and reading the query file can fail, which ends the
\* program; otherwise connect_with_retry is called.
MainUnit ==
    /\ m_pc = "loop"
    /\ IF unit = units
       THEN /\ m_pc' = "done"
            /\ UNCHANGED <<connVars, m_log, m_err>>
       ELSE \/ /\ m_pc' = "failed"
               /\ m_err' = Some("unit setup")
               /\ UNCHANGED <<connVars, m_log>>
            \/ /\ m_pc' = "connect"
               /\ ConnBegin
               /\ m_log' = Append(m_log, Event("connect", "", now))
               /\ UNCHANGED m_err
    /\ UNCHANGED <<units, unit, m_stream, storeVars, streamVars, reqVars, apartVars>>

\* Lines 476-479: connect_with_retry has returned; its error ends the
\* program, its stream is handed to send_request.
MainConnected ==
    /\ m_pc = "connect"
    /\ c_pc \in {"ok", "err"}
    /\ IF c_pc = "err"
       THEN /\ m_pc' = "failed"
            /\ m_err' = Some("connect")
            /\ m_stream' = None
            /\ UNCHANGED <<streamVars, reqVars>>
       ELSE /\ m_pc' = "exchange"
            /\ m_stream' = Some(streams)
            /\ ReqBegin(streams)
            /\ UNCHANGED m_err
    /\ c_pc' = "idle"
    /\ c_iter' = 0
    /\ last_error' = None
    /\ c_log' = <<>>
    /\ c_ret' = None
    /\ UNCHANGED <<streams, units, unit, m_log, storeVars, apartVars>>

\* Lines 479-496: send_request has returned; its error ends the program
\* (the `?` of line 479), and so does a failure to write the result file of
\* a response whose status is true (line 492).  Otherwise the program goes
\* on to the cool-down.
MainResult ==
    /\ m_pc = "exchange"
    /\ st \in {"Updated", "Failed"}
    /\ IF st = "Failed"
       THEN /\ m_pc' = "failed"
            /\ m_err' = Some("exchange")
            /\ m_log' = Append(m_log, Event("exchange failed", sr_ret[1].kind, now))
       ELSE /\ m_log' = Append(m_log,
                   Event("exchange",
                         IF sr_ret[1].response[1].status THEN "status true"
                         ELSE "status false", now))
            /\ \/ /\ m_pc' = "cooldown"
                  /\ UNCHANGED m_err
               \/ /\ sr_ret[1].response[1].status
                  /\ m_pc' = "failed"
                  /\ m_err' = Some("result write")
    /\ st' = "none"
    /\ trace' = <<>>
    /\ io' = <<>>
    /\ timestamp' = 0
    /\ nonce' = <<>>
    /\ request' = None
    /\ response' = None
    /\ sr_ret' = None
    /\ session0' = None
    /\ file0' = NoFile
    /\ transport' = NoTransport
    /\ sent' = <<>>
    /\ reads' = 0
    /\ r_last' = "none"
    /\ r_pc' = "idle"
    /\ response_data' = <<>>
    /\ total_bytes' = 0
    /\ r_ret' = None
    /\ m_stream' = IF m_pc' = "failed" THEN None ELSE m_stream
    /\ UNCHANGED <<nonces, used, units, unit, storeVars, connVars, apartVars>>

\* A slip in CoolDown: the delay between connection attempts is used.
CoolDownAsRetry == RETRY_DELAY
\* How long the cool-down lasts (line 498).
CoolDown == RECONNECT_DELAY

\* sleep(RECONNECT_DELAY).await (line 498), the end of the unit.
MainCoolDown ==
    /\ m_pc = "cooldown"
    /\ now' = now + CoolDown
    /\ m_log' = Append(m_log, Event("cooldown", "", now + CoolDown))
    /\ unit' = unit + 1
    /\ m_stream' = None
    /\ m_pc' = "loop"
    /\ UNCHANGED <<units, m_err, ticks, file, alive, session, lastLoad>>
    /\ UNCHANGED <<connVars, streamVars, reqVars, apartVars>>

Next ==
    \/ MainNew
    \/ MainSetup
    \/ MainUnit
    \/ ConnTcp({"refused"})
    \/ ConnTls({"handshake"})
    \/ ConnSleep
    \/ MainConnected
    \/ ReqCapture
    \/ ReqSign
    \/ ReqSend(Replies(now))
    \/ ReqStreamStart
    \/ ReqStreamRead
    \/ ReqReceive
    \/ ReqVerify
    \/ MainResult
    \/ MainCoolDown

Spec == MainInit /\ [][Next]_vars

(***************************************************************************)
(* A client used call by call: Client::new, then send_request any number   *)
(* of times, each on a stream of its own, whatever the calls return.       *)
(***************************************************************************)
\* The session id of a response that passes verification (an Option).
VerifiedSessionId(resp) ==
    IF /\ resp # None
       /\ VerifyResponse(ResponseToJson(Cleared(resp[1])), resp[1].signature, ServerKey)
    THEN Some(resp[1].session_id)
    ELSE None

\* The record of a call: the session id the request carried, the session id
\* of the response when it passed verification, the error returned ("" when
\* none), and the session id the client holds when the call returns.
Call(op, carried, verified, kind, held) ==
    [op |-> op, carried |-> carried, verified |-> verified, kind |-> kind,
     held |-> held]

\* What the peer sends back to a client used call by call: some of
\* Replies(ts).  A response with either status and session id, unsigned or
\* signed under the server's secret; nothing, no JSON, no UTF-8; then the
\* peer closes or the connection breaks.
HarnessResponses(ts) ==
    UNION {{u, [u EXCEPT !.signature = Digest(ResponseToJson(u), ServerKey)]} :
              u \in {Response(b, Data1, sid, ts, <<>>) :
                        b \in BOOLEAN, sid \in {Sid1, Sid2}}}
HarnessReplies(ts) ==
    {Transport(p, e) :
        p \in {ResponseToJson(r) : r \in HarnessResponses(ts)}
                  \cup {<<>>, <<120>>, <<123, 255, 125>>},
        e \in {"close", "error"}}

HarnessInit ==
    /\ now = T0
    /\ ticks = 0
    /\ file \in MainFiles
    /\ alive = {}
    /\ session = [c \in Clients |-> None]
    /\ lastLoad = None
    /\ ConnIdle
    /\ transport = NoTransport
    /\ StreamIdle
    /\ ReqIdle
    /\ MainIdle
    /\ ApartIdle

\* Client::new (lines 100-112).
HarnessNew ==
    /\ h_calls = <<>>
    /\ ClientNew(Client1)
    /\ h_calls' = <<Call("new", None, None,
                         IF Client1 \in alive' THEN "" ELSE "panic",
                         CarriedSessionId(session'[Client1]))>>
    /\ UNCHANGED <<now, ticks, file>>
    /\ UNCHANGED <<connVars, streamVars, reqVars, mainVars, fetchVars, signVars>>

\* send_request is called on a stream just connected.
HarnessCall ==
    /\ Client1 \in alive
    /\ st = "none"
    /\ Len(h_calls) <= MaxCalls
    /\ streams' = FreshStream(streams)
    /\ ReqBegin(streams')
    /\ lastLoad' = None
    /\ UNCHANGED <<now, ticks, file, alive, session>>
    /\ UNCHANGED <<c_pc, c_iter, last_error, c_log, c_ret>>
    /\ UNCHANGED <<mainVars, apartVars>>

\* send_request has returned.
HarnessReturn ==
    /\ m_pc = "off"
    /\ st \in {"Updated", "Failed"}
    /\ h_calls' = Append(h_calls,
                     Call("send", request[1].session_id, VerifiedSessionId(response),
                          sr_ret[1].kind, CarriedSessionId(session[Client1])))
    /\ st' = "none"
    /\ trace' = <<>>
    /\ io' = <<>>
    /\ timestamp' = 0
    /\ nonce' = <<>>
    /\ request' = None
    /\ response' = None
    /\ sr_ret' = None
    /\ session0' = None
    /\ file0' = NoFile
    /\ transport' = NoTransport
    /\ sent' = <<>>
    /\ reads' = 0
    /\ r_last' = "none"
    /\ r_pc' = "idle"
    /\ response_data' = <<>>
    /\ total_bytes' = 0
    /\ r_ret' = None
    /\ UNCHANGED <<nonces, used, storeVars, connVars, mainVars, fetchVars, signVars>>

HarnessNext ==
    \/ HarnessNew
    \/ HarnessCall
    \/ ReqCapture
    \/ ReqSign
    \/ ReqSend(HarnessReplies(now))
    \/ ReqStreamStart
    \/ ReqStreamRead
    \/ ReqReceive
    \/ ReqVerify
    \/ HarnessReturn

SpecClient == HarnessInit /\ [][HarnessNext]_vars

(***************************************************************************)
(* Properties of load_session and save_session, under SpecStore.           *)
(***************************************************************************)
\* The record a call of load_session found in the file (an Option).
LoadedRecord(l) == IF l.file.exists THEN SessionFromJson(l.file.text) ELSE None

\* The latest step called load_session on a well-formed record of the
\* calling client whose created_at is `age` seconds before the call.
LoadAtAge(age) ==
    /\ lastLoad # None
    /\ LoadedRecord(lastLoad[1]) # None
    /\ LoadedRecord(lastLoad[1])[1].client_id = lastLoad[1].cid
    /\ LoadedRecord(lastLoad[1])[1].created_at + age = lastLoad[1].at

LoadGave(v) == lastLoad[1].out = Returned(v)

\* C3, as claimed: a well-formed record of the calling client with
\* created_at = now - 3599 is loaded, and one with created_at = now - 3600
\* is treated as expired and is not loaded.
C3_AsClaimed ==
    /\ LoadAtAge(SESSION_TTL - 1) => LoadGave(LoadedRecord(lastLoad[1]))
    /\ LoadAtAge(SESSION_TTL) => LoadGave(None)

\* C3, amended: a well-formed record of the calling client is loaded with
\* created_at = now - 3599 and with created_at = now - 3600, and is treated
\* as expired and not loaded with created_at = now - 3601: a session expires
\* once it is older than 3600 seconds.
C3_TtlBoundary ==
    /\ LoadAtAge(SESSION_TTL - 1) => LoadGave(LoadedRecord(lastLoad[1]))
    /\ LoadAtAge(SESSION_TTL) => LoadGave(LoadedRecord(lastLoad[1]))
    /\ LoadAtAge(SESSION_TTL + 1) => LoadGave(None)

\* A record exactly 3600 seconds old has been loaded.
C3_Witness == LoadAtAge(SESSION_TTL) /\ LoadGave(LoadedRecord(lastLoad[1]))

\* C4: whatever the session file holds, load_session returns: either no
\* session, or a session of the calling client that is at most 3600 seconds
\* old.  It never aborts.
C4_LoadNeverAborts ==
    lastLoad # None =>
        /\ lastLoad[1].out.tag = "returned"
        /\ lastLoad[1].out.val # None =>
            /\ lastLoad[1].out.val[1].client_id = lastLoad[1].cid
            /\ lastLoad[1].out.val[1].created_at <= lastLoad[1].at
            /\ lastLoad[1].at - lastLoad[1].out.val[1].created_at <= SESSION_TTL

\* C5: load_session(B) never returns a session whose client_id is not B, and
\* no client holds a session of another client id, whatever the clients
\* sharing the file have saved.
C5_IdentityIsolation ==
    /\ lastLoad # None /\ lastLoad[1].out.val # None =>
        lastLoad[1].out.val[1].client_id = lastLoad[1].cid
    /\ \A c \in Clients : session[c] # None => session[c][1].client_id = c

\* Client 2 has called load_session on the file holding the unexpired
\* session client 1 saved, and got no session.
C5_Witness ==
    /\ lastLoad # None
    /\ lastLoad[1].cid = Client2
    /\ session[Client1] # None
    /\ lastLoad[1].file = FileOf(SessionToJson(session[Client1][1]))
    /\ session[Client1][1].created_at > T0
    /\ lastLoad[1].at - session[Client1][1].created_at <= SESSION_TTL
    /\ LoadGave(None)

(***************************************************************************)
(* Properties of connect_with_retry, under SpecConn.                       *)
(***************************************************************************)
\* The positions in the log where an attempt begins (a TCP connect is made),
\* and where an attempt has failed.
AttemptAt(log) == {i \in 1..Len(log) : log[i].e \in {"tcp_ok", "tcp_fail"}}
FailureAt(log) == {i \in 1..Len(log) : log[i].e \in {"tcp_fail", "tls_fail"}}
SleepsBetween(log, i, j) == {k \in (i + 1)..(j - 1) : log[k].e = "sleep"}

\* Consecutive attempts are one sleep of RETRY_DELAY apart.
AttemptsSeparated(log) ==
    \A i, j \in AttemptAt(log) :
        (i < j /\ \A k \in AttemptAt(log) : ~(i < k /\ k < j)) =>
            /\ Cardinality(SleepsBetween(log, i, j)) = 1
            /\ log[j].at - log[i].at = RETRY_DELAY

\* Every attempt made so far has failed.
EveryAttemptFailed(log) ==
    \A i \in 1..Len(log) : log[i].e # "tls_ok"

\* C6: when every attempt fails, connect_with_retry returns its error only
\* after exactly MAX_RETRIES attempts, consecutive attempts one RETRY_DELAY
\* apart, and the error carries the cause of the last failed attempt.
C6_RetryExhaustion ==
    (c_pc = "err" /\ EveryAttemptFailed(c_log)) =>
        /\ Cardinality(AttemptAt(c_log)) = MAX_RETRIES
        /\ AttemptsSeparated(c_log)
        /\ \E i \in FailureAt(c_log) :
            /\ \A k \in FailureAt(c_log) : k <= i
            /\ c_ret[1].cause = c_log[i].cause

\* C7: an attempt whose TCP connect succeeds and whose TLS handshake fails is
\* a failed attempt: with fewer than MAX_RETRIES attempts made, the call goes
\* on to the delay and the next attempt instead of returning.
C7_HandshakeFailureRetried ==
    (/\ c_log # <<>>
     /\ c_log[Len(c_log)].e = "tls_fail"
     /\ Cardinality(AttemptAt(c_log)) < MAX_RETRIES) =>
        /\ c_pc = "sleep"
        /\ c_ret = None

(***************************************************************************)
(* Properties of stream_response, under SpecStream.                        *)
(***************************************************************************)
\* All the bytes of the transport: those delivered and those still to come.
Carried == sent \o transport.pending

\* C8, as claimed: on every transport that delivers N >= 1 bytes in any
\* number of reads and then closes, stream_response returns exactly those N
\* bytes in the order they were delivered (read here with the progress line
\* always reaching stdout).
C8_AsClaimed ==
    (/\ r_pc = "ret"
     /\ transport.end = "close"
     /\ Len(Carried) >= 1
     /\ r_ret # Some(StreamErr("stdout"))) =>
        r_ret = Some(StreamOk(Carried))

\* C8, amended: on every transport that delivers N >= 1 bytes in any number
\* of reads and then closes, stream_response returns exactly those N bytes
\* in order when they are well-formed UTF-8, and the invalid-UTF-8 error when
\* they are not, unless a flush of the progress line to stdout failed.
C8_Chunked ==
    (/\ r_pc = "ret"
     /\ transport.end = "close"
     /\ Len(Carried) >= 1
     /\ r_ret # Some(StreamErr("stdout"))) =>
        /\ transport.pending = <<>>
        /\ Utf8Valid(sent) => r_ret = Some(StreamOk(sent))
        /\ ~Utf8Valid(sent) => r_ret = Some(StreamErr("utf8"))

\* A two-byte character and a letter, delivered in three reads, have been
\* returned whole.
C8_Witness ==
    /\ r_pc = "ret"
    /\ reads = 3
    /\ sent = <<195, 169, 65>>
    /\ r_ret = Some(StreamOk(sent))

\* C9, as claimed: stream_response returns only when a read is zero-length
\* or fails; a zero-length first read gives the closed-early error; a
\* zero-length read after some bytes ends the reading (read here as: the
\* bytes received go on to the conversion to text); and it does not return
\* while the transport is open and silent.
C9_AsClaimed ==
    /\ r_pc = "ret" => r_last \in {"zero", "error"}
    /\ (r_pc = "ret" /\ r_last = "zero" /\ reads = 0) =>
        r_ret = Some(StreamErr("closed_early"))
    /\ (r_pc = "ret" /\ r_last = "zero" /\ reads > 0) =>
        r_ret = Some(FromUtf8(sent))
    /\ (r_pc = "read" /\ transport = Transport(<<>>, "open")) =>
        (r_ret = None /\ ~ENABLED StreamRead(TRUE))

\* C9, amended: stream_response returns only when a read is zero-length or
\* fails, or when a flush of the progress line to stdout fails; a zero-length
\* first read gives the closed-early error, never an empty success; a
\* zero-length read after some bytes ends the reading, with the text received
\* when it is well-formed UTF-8 and the invalid-UTF-8 error when it is not;
\* and it does not return while the transport is open and silent.
C9_ReturnsOnCloseOrError ==
    /\ r_pc = "ret" =>
        \/ r_last \in {"zero", "error"}
        \/ r_ret = Some(StreamErr("stdout"))
    /\ (r_pc = "ret" /\ r_last = "zero" /\ reads = 0) =>
        r_ret = Some(StreamErr("closed_early"))
    /\ (r_pc = "ret" /\ r_last = "zero" /\ reads > 0) =>
        r_ret = Some(FromUtf8(sent))
    /\ (r_pc = "ret" /\ r_last = "error") => r_ret = Some(StreamErr("read"))
    /\ (r_pc = "read" /\ transport = Transport(<<>>, "open")) =>
        (r_ret = None /\ ~ENABLED StreamRead(TRUE))

\* The peer closed before sending a byte, and the call has failed with the
\* closed-early error.
C9_Witness ==
    /\ r_pc = "ret"
    /\ r_last = "zero"
    /\ reads = 0
    /\ sent = <<>>
    /\ r_ret = Some(StreamErr("closed_early"))

(***************************************************************************)
(* Properties of send_request and main, under Spec.                        *)
(***************************************************************************)
\* The signature of response r is the digest, under the server's secret, of
\* r serialized with its signature cleared.
Genuine(r) == r.signature = Digest(ResponseToJson(Cleared(r)), ServerKey)

\* The session id of the record the session file holds (an Option).
SavedSessionId(f) ==
    IF f.exists /\ SessionFromJson(f.text) # None
    THEN Some(SessionFromJson(f.text)[1].session_id)
    ELSE None

\* An exchange whose response's signature does not match has failed with the
\* signature error, which carries no response.
MismatchFails ==
    (st \in {"Updated", "Failed"} /\ response # None /\ ~Genuine(response[1])) =>
        /\ st = "Failed"
        /\ sr_ret = Some(ReqErr("signature"))

\* A step that changes the client's session or the session file either
\* constructs the client, with the session the file held, or ends the
\* verification of a response whose signature matches, with that response's
\* session id (in the file: that id, or no record when the write failed).
SessionOnlyFromVerified ==
    /\ session'[Client1] # session[Client1] =>
        \/ /\ m_pc = "start"
           /\ CarriedSessionId(session'[Client1]) = SavedSessionId(file)
        \/ /\ st = "Verifying"
           /\ Genuine(response[1])
           /\ CarriedSessionId(session'[Client1]) = Some(response[1].session_id)
    /\ file' # file =>
        /\ st = "Verifying"
        /\ Genuine(response[1])
        /\ SavedSessionId(file') \in {None, Some(response[1].session_id)}

\* C1: when the signature recomputed over the response (signature cleared,
\* server secret) differs from the one the response carries, the exchange
\* fails and returns no response; and the session in memory and the session
\* file only ever take a session id loaded at construction or carried by a
\* response that passed verification.
C1_UnverifiedNeverTrusted == []MismatchFails /\ [][SessionOnlyFromVerified]_vars

\* In the second exchange of a run, after a verified one, a response that
\* parses but whose signature does not match has been rejected, and the
\* session and the file are those of the first exchange.
C1_Witness ==
    /\ unit = 1
    /\ st = "Failed"
    /\ response # None
    /\ response[1].signature # <<>>
    /\ ~Genuine(response[1])
    /\ sr_ret = Some(ReqErr("signature"))
    /\ session[Client1] = session0
    /\ session0 # None
    /\ file = file0

ExchangePath ==
    <<"Idle", "Signing", "Sending", "AwaitingResponse", "Verifying", "Updated">>

Has(log, e) == \E i \in 1..Len(log) : log[i] = e
Before(log, a, b) ==
    \A j \in 1..Len(log) : log[j] = b => \E i \in 1..(j - 1) : log[i] = a

\* C2: an exchange goes through Idle, Signing, Sending, AwaitingResponse,
\* Verifying, Updated in this order, and leaves the path only to Failed;
\* nothing is read before the request is written and flushed; the signature
\* is checked only after the peer has closed and the text has parsed; the
\* session and the file change only after the check has passed.
C2_ExchangeOrder ==
    st # "none" =>
        /\ st = trace[Len(trace)]
        /\ \E n \in 1..Len(ExchangePath) :
            \/ trace = SubSeq(ExchangePath, 1, n)
            \/ n < Len(ExchangePath) /\ trace = SubSeq(ExchangePath, 1, n) \o <<"Failed">>
        /\ (r_pc # "idle" \/ reads > 0 \/ sent # <<>>) =>
            (Has(io, "flush") /\ Before(io, "write", "flush"))
        /\ Before(io, "flush", "read") /\ Before(io, "flush", "read failed")
        /\ (Has(io, "verify") \/ Has(io, "verify failed")) =>
            (r_last = "zero" /\ Has(io, "parse") /\ response # None)
        /\ Before(io, "parse", "verify") /\ Before(io, "parse", "verify failed")
        /\ Before(io, "read", "parse")
        /\ (session[Client1] # session0 \/ file # file0) =>
            (Has(io, "verify") /\ Genuine(response[1]))
        /\ Before(io, "verify", "session") /\ Before(io, "session", "save")

\* An exchange has gone through the whole path and replaced the session.
C2_Witness ==
    /\ st = "Updated"
    /\ trace = ExchangePath
    /\ io = <<"sign", "write", "flush", "read", "parse", "verify", "session", "save">>
    /\ session[Client1] # session0
    /\ file # file0

\* C10: in the batch loop a connection is opened after an exchange only when
\* the cool-down has followed that exchange, and RECONNECT_DELAY has elapsed
\* since it ended; whatever main does after an exchange, whether its response
\* reports success or failure, begins with the cool-down.  (An exchange that
\* returns an error ends main: nothing follows it.)
C10_CoolDownBeforeNextConnection ==
    \A i \in 1..Len(m_log) :
        /\ (m_log[i].e \in {"exchange", "exchange failed"} /\ i < Len(m_log)) =>
            m_log[i + 1].e = "cooldown"
        /\ (m_log[i].e = "connect" /\ i > 1) =>
            /\ i > 2
            /\ m_log[i - 1].e = "cooldown"
            /\ m_log[i - 2].e \in {"exchange", "exchange failed"}
            /\ m_log[i].at - m_log[i - 2].at >= RECONNECT_DELAY

\* A connection has been opened after an exchange whose response reported
\* failure, the cool-down in between.
C10_Witness ==
    /\ Len(m_log) = 4
    /\ m_log[2].e = "exchange"
    /\ m_log[2].cause = "status false"
    /\ m_log[3].e = "cooldown"
    /\ m_log[4].e = "connect"
    /\ m_log[4].at = m_log[2].at + RECONNECT_DELAY

\* The units of work main has attempted: it opens one connection for each.
Attempted == Cardinality({i \in 1..Len(m_log) : m_log[i].e = "connect"})

\* The failures of one unit of work: of its connection, of its exchange, of
\* the write of its result.
UnitFailures == {Some("connect"), Some("exchange"), Some("result write")}

\* C11: a failure of one unit of work does not abort the batch: when main has
\* ended after such a failure, every unit of the batch has been attempted.
C11_BatchSurvivesUnitFailure ==
    (m_pc \in {"done", "failed"} /\ m_err \in UnitFailures) => Attempted = units

\* The positions of the log where a connection is opened, and where an
\* exchange has ended.
ConnectAt == {i \in 1..Len(m_log) : m_log[i].e = "connect"}
ExchangeEndAt == {i \in 1..Len(m_log) : m_log[i].e \in {"exchange", "exchange failed"}}

\* C12: every exchange of the batch runs on a stream freshly obtained from
\* connect_with_retry: no stream is passed to send_request twice; while an
\* exchange is under way no call of connect_with_retry is, and the stream of
\* the exchange is the one the latest call returned; while a connection is
\* being opened no exchange is under way, and between two openings an
\* exchange has ended (verification and saving included).
C12_FreshTransportPerExchange ==
    /\ \A i, j \in 1..Len(used) : i # j => used[i] # used[j]
    /\ st # "none" =>
        /\ m_pc = "exchange"
        /\ c_pc = "idle"
        /\ m_stream = Some(streams)
        /\ used[Len(used)] = streams
        /\ Len(used) = Cardinality(ConnectAt)
    /\ c_pc # "idle" =>
        /\ m_pc = "connect"
        /\ st = "none"
        /\ sr_ret = None
        /\ m_stream = None
        /\ Len(used) = Cardinality(ExchangeEndAt)
    /\ \A i, j \in ConnectAt : i < j => \E k \in ExchangeEndAt : i < k /\ k < j

\* A second exchange has ended, on the second stream handed out.
C12_Witness ==
    /\ st = "Updated"
    /\ used = <<1, 2>>
    /\ m_stream = Some(2)
    /\ Cardinality(ConnectAt) = 2

(***************************************************************************)
(* Properties of a client used call by call, under SpecClient.             *)
(***************************************************************************)
\* The latest call that gave the client a session id to carry: its
\* construction, or a send_request whose response passed verification.
LastSeeding(h) ==
    CHOOSE i \in 1..Len(h) :
        /\ h[i].op = "new" \/ h[i].verified # None
        /\ \A j \in (i + 1)..Len(h) : h[j].verified = None
SeedOf(c) == IF c.op = "new" THEN c.held ELSE c.verified

\* C13: the first request carries the session id loaded at construction, or
\* none; every later request carries the session id of the most recent
\* response that passed verification; and the request after a failed
\* exchange carries the session id the failed one carried.
C13_SessionContinuity ==
    request # None =>
        /\ request[1].session_id = SeedOf(h_calls[LastSeeding(h_calls)])
        /\ (h_calls[Len(h_calls)].op = "send" /\ h_calls[Len(h_calls)].kind # "") =>
            request[1].session_id = h_calls[Len(h_calls)].carried

ForgedFrom(r) ==
    {g \in {[u EXCEPT !.signature = Digest(ResponseToJson(u), ServerKey)] :
                u \in Unsigned(timestamp)} :
        /\ Genuine(g)
        /\ g.signature = r.signature
        /\ Cleared(g) # Cleared(r)}

\* C15: a response that differs in data, status, session id or timestamp
\* from a genuinely signed one whose signature it carries fails the
\* verification in send_request: the call returns the signature error, and
\* the session and the session file stay as they were.
C15_TamperedRejected ==
    (st \in {"Updated", "Failed"} /\ response # None /\ ForgedFrom(response[1]) # {}) =>
        /\ st = "Failed"
        /\ sr_ret = Some(ReqErr("signature"))
        /\ session[Client1] = session0
        /\ file = file0

\* A response whose data alone was changed after signing has been rejected
\* by a client that holds a session.
C15_Witness ==
    /\ st = "Failed"
    /\ response # None
    /\ session0 # None
    /\ \E g \in ForgedFrom(response[1]) : response[1] = [g EXCEPT !.data = Data2]
    /\ sr_ret = Some(ReqErr("signature"))

(***************************************************************************)
(* Properties of fetch_groups and fetch_agents, under SpecFetch.           *)
(***************************************************************************)
\* The positions of the log where an attempt was made, and where one failed
\* on a non-success status or a malformed envelope.
FetchAttemptAt == {i \in 1..Len(f_log) : f_log[i].e = "attempt"}
MalformedAt ==
    {i \in FetchAttemptAt : f_log[i].cause \in {"status", "not json", "structure"}}

\* C16: a fetch retries on every non-success status and on every malformed
\* envelope, a body that is no JSON as well as one lacking the nested list:
\* after such an attempt, with fewer than MAX_RETRIES made, it goes on to the
\* delay and the next attempt.  It makes at most MAX_RETRIES attempts,
\* consecutive ones RETRY_DELAY apart, and returns the exhausted-retries
\* error only after exactly MAX_RETRIES failed attempts.
C16_FetchRetries ==
    /\ (/\ f_log # <<>>
        /\ Len(f_log) \in MalformedAt
        /\ Cardinality(FetchAttemptAt) < MAX_RETRIES) =>
            (f_pc = "sleep" /\ f_ret = None)
    /\ Cardinality(FetchAttemptAt) <= MAX_RETRIES
    /\ \A i, j \in FetchAttemptAt :
            (i < j /\ \A k \in FetchAttemptAt : ~(i < k /\ k < j)) =>
                f_log[j].at - f_log[i].at = RETRY_DELAY
    /\ f_ret = Some(FetchErr("exhausted")) =>
            /\ Cardinality(FetchAttemptAt) = MAX_RETRIES
            /\ MalformedAt = FetchAttemptAt

\* The errors of an exchange that fails while sending, while awaiting the
\* response, or while parsing it.
EarlyFailures == {"write", "flush", "stdout", "read", "closed_early", "utf8", "parse"}

\* C17: an exchange that fails while sending (write or flush error), while
\* awaiting the response (read error, closed early, and the other errors of
\* stream_response) or while parsing the response leaves the session in
\* memory and the session file exactly as they were before the exchange.
C17_EarlyFailureLeavesSession ==
    (st = "Failed" /\ sr_ret[1].kind \in EarlyFailures) =>
        /\ session[Client1] = session0
        /\ file = file0

\* An exchange of a client that holds a session has failed in parsing the
\* response, and the session and the file are as they were.
C17_Witness ==
    /\ st = "Failed"
    /\ sr_ret = Some(ReqErr("parse"))
    /\ session0 # None
    /\ file0.exists
    /\ session[Client1] = session0
    /\ file = file0

\* The record the session file holds (an Option), and whether the session
\* in memory and the file agree: both none, or the same session id, client
\* id, created_at and last_used.
Persisted(f) == IF f.exists THEN SessionFromJson(f.text) ELSE None
Agree(sess, f) == sess = Persisted(f)

\* C18: whenever send_request returns, with success or with any error, the
\* session in memory and the session file agree, provided they agreed before
\* the call: a failure of save_session does not leave the session in memory
\* updated and the file stale.
C18_SessionAgreesWithFile ==
    (st \in {"Updated", "Failed"} /\ Agree(session0, file0)) =>
        Agree(session[Client1], file)

\* C19: every request that carries a session id carries the id of a session
\* that is valid when the request is built: a session of the requesting
\* client with now - created_at <= 3600, however long ago it was loaded or
\* the previous exchange completed.
C19_CarriedSessionValid ==
    (request # None /\ request[1].session_id # None) =>
        /\ session0 # None
        /\ request[1].session_id = Some(session0[1].session_id)
        /\ session0[1].client_id = request[1].client_id
        /\ session0[1].created_at <= request[1].timestamp
        /\ request[1].timestamp - session0[1].created_at <= SESSION_TTL

\* C20: every response that passes verification replaces the session,
\* whatever its status flag: once the verification has passed, and so after
\* send_request has succeeded, the session in memory has the response's
\* session id, the requesting client's id, and created_at = last_used = the
\* timestamp taken at the start of the exchange, the one sent in the request.
C20_VerifiedResponseReplacesSession ==
    /\ (st \in {"Updated", "Failed"} /\ response # None /\ Genuine(response[1])) =>
        session[Client1] = Some(SessionInfo(response[1].session_id, request[1].client_id,
                                            request[1].timestamp, request[1].timestamp))
    /\ st = "Updated" =>
        /\ sr_ret = Some(ReqOk(response[1]))
        /\ Genuine(response[1])
        /\ session[Client1][1].session_id = response[1].session_id
        /\ session[Client1][1].client_id = Client1
        /\ session[Client1][1].created_at = timestamp
        /\ session[Client1][1].last_used = timestamp

\* An exchange has succeeded on a response whose status is false and whose
\* session id differs from the one the client held, and the client holds the
\* new session.
C20_Witness ==
    /\ st = "Updated"
    /\ ~response[1].status
    /\ session0 # None
    /\ session0[1].session_id # response[1].session_id
    /\ session[Client1] = Some(SessionInfo(response[1].session_id, Client1,
                                           timestamp, timestamp))

====
